---------------------------- MODULE Spec2Model ----------------------------
(***************************************************************************)
(* asio::generic::stream_protocol (asio/generic/stream_protocol.hpp).      *)
(*                                                                         *)
(* The class is a small value type.  The model keeps a set of object slots *)
(* in which descriptors are constructed, copied, read, compared and        *)
(* destroyed by a caller.  The preprocessor symbol                         *)
(* ASIO_HAS_APPLE_NETWORK_FRAMEWORK selects one of two representations; it *)
(* is the variable nw, chosen once in Init and never changed.              *)
(***************************************************************************)
EXTENDS Integers, FiniteSets, TLC

\* ------------------------------------------------------------------ bounds
MaxObjs == 3        \* object slots the caller has for descriptors, raw form
MaxNwObjs == 2      \* object slots the caller has, parameter form
MaxHandles == 3     \* nw_parameters_t objects that can be alive at once
MaxVal == 0         \* family / protocol inputs range over -1..MaxVal
MaxType == 2        \* source protocols report a type() in 1..MaxType
MaxThreads == 2     \* reader threads of the shared-object specification

\* ------------------------------------------------------- program constants
SOCK_STREAM == 1    \* ASIO_OS_DEF(SOCK_STREAM)

Handles == 1..MaxHandles
IntVals == (0 - 1)..MaxVal
TypeVals == 1..MaxType
ParamVals == {0, 1}     \* contents of an nw_parameters_t object (opaque)
SizeVals == {0, 1}      \* max_receive_size values
Threads == 1..MaxThreads
Free == 0 - 1           \* heap cell of a handle that is not allocated

VARIABLES
  nw,        \* TRUE iff ASIO_HAS_APPLE_NETWORK_FRAMEWORK is defined
  objs,      \* live descriptors: slot -> member values
  origin,    \* ghost: slot -> <<f, p>> given to the constructor that built it
  heap,      \* handle -> contents of the nw_parameters_t object, or Free
  held,      \* handles the caller owns a reference to
  returned,  \* ghost: handles in held that came from apple_nw_create_parameters
  lastop,    \* the operation executed by the last step and its inputs
  ret,       \* integer (or handle) returned by the last call
  bret,      \* boolean returned by the last comparison
  err,       \* exception thrown by the last operation, or "none"
  pc         \* per thread: its call on the shared objects, in progress or returned

vars == <<nw, objs, origin, heap, held, returned, lastop, ret, bret, err, pc>>
tvars == <<pc>>

Slots == IF nw THEN 1..MaxNwObjs ELSE 1..MaxObjs

Op(o, a, b, t, f, p) == [op |-> o, a |-> a, b |-> b, t |-> t, f |-> f, p |-> p]
Call(o, b, st, v, bv) == [op |-> o, b |-> b, stage |-> st, val |-> v, bval |-> bv]
Idle == Call("idle", 0, 0, 0, FALSE)

\* ------------------------------------------------------------ the class

\* the constructor with its arguments stored in the wrong members
stream_protocol_raw_swapped(address_family, socket_protocol) ==
  [family_ |-> socket_protocol, protocol_ |-> address_family]

\* stream_protocol(int address_family, int socket_protocol)
stream_protocol_raw(address_family, socket_protocol) ==
  [family_ |-> address_family, protocol_ |-> socket_protocol]

\* stream_protocol(apple_nw_ptr<nw_parameters_t> parameters, size_t max_receive_size)
stream_protocol_nw(parameters, max_receive_size) ==
  [parameters_ |-> parameters, max_receive_size_ |-> max_receive_size]

\* type() returning the datagram constant of the sibling class
type_dgram(this) == SOCK_STREAM + 1

\* int type() const
type(this) == SOCK_STREAM

\* int protocol() const
protocol(this) == this.protocol_

\* family() reading the wrong member
family_wrong_member(this) == this.protocol_

\* int family() const
family(this) == this.family_

\* std::size_t apple_nw_max_receive_size() const
apple_nw_max_receive_size(this) == this.max_receive_size_

\* the converting constructor without its test
ConvertThrows_never(source_type, this) == FALSE

\* the converting constructor with its test inverted
ConvertThrows_inverted(source_type, this) == source_type = type(this)

\* the test of the converting constructor's body: source.type() != type()
ConvertThrows(source_type, this) == source_type # type(this)

\* apple_nw_ptr's comparison: two pointers are equal iff they hold the same object
apple_nw_ptr_eq(x, y) == x = y

\* the two conjuncts of operator== in the raw form
eq_family(p1, p2) == p1.family_ = p2.family_
eq_protocol(p1, p2) == p1.protocol_ = p2.protocol_

\* operator== without the second conjunct
op_eq_first_only(p1, p2) ==
  IF nw
    THEN apple_nw_ptr_eq(p1.parameters_, p2.parameters_)
    ELSE eq_family(p1, p2)

\* operator== comparing one operand's first member with the other's second
op_eq_crossed(p1, p2) ==
  IF nw
    THEN apple_nw_ptr_eq(p1.parameters_, p2.parameters_)
         /\ p1.max_receive_size_ = p2.max_receive_size_
    ELSE p1.family_ = p2.protocol_ /\ p1.protocol_ = p2.protocol_

\* operator== that forgets max_receive_size_
op_eq_handle_only(p1, p2) ==
  IF nw
    THEN apple_nw_ptr_eq(p1.parameters_, p2.parameters_)
    ELSE eq_family(p1, p2) /\ eq_protocol(p1, p2)

\* friend bool operator==(const stream_protocol& p1, const stream_protocol& p2)
op_eq(p1, p2) ==
  IF nw
    THEN apple_nw_ptr_eq(p1.parameters_, p2.parameters_)
         /\ p1.max_receive_size_ = p2.max_receive_size_
    ELSE eq_family(p1, p2) /\ eq_protocol(p1, p2)

\* friend bool operator!=(const stream_protocol& p1, const stream_protocol& p2)
op_ne(p1, p2) == ~op_eq(p1, p2)

\* nw_parameters_copy: a new object h with the contents of the object src
nw_parameters_copy(hp, src, h) == [hp EXCEPT ![h] = hp[src]]

\* apple_nw_create_parameters() handing out the stored handle itself
apple_nw_create_parameters_shared(this, hp, h) ==
  [handle |-> this.parameters_, heap |-> hp]

\* apple_nw_create_parameters() const: the handle returned and the heap after
apple_nw_create_parameters(this, hp, h) ==
  [handle |-> h, heap |-> nw_parameters_copy(hp, this.parameters_, h)]

\* handles stored in the descriptors o
Stored(o) == IF nw THEN {o[s].parameters_ : s \in DOMAIN o} ELSE {}

\* apple_nw_ptr release: an object dies with its last owning reference
Release(hp, h, o, hd) == IF h \in Stored(o) \cup hd THEN hp ELSE [hp EXCEPT ![h] = Free]

Without(o, a) == [s \in DOMAIN o \ {a} |-> o[s]]

\* ------------------------------------------------------------------ Init
InitRest ==
  /\ objs = <<>>
  /\ origin = <<>>
  /\ heap = [h \in Handles |-> Free]
  /\ held = {}
  /\ returned = {}
  /\ lastop = Op("init", 0, 0, 0, 0, 0)
  /\ ret = 0
  /\ bret = FALSE
  /\ err = "none"
  /\ pc = [t \in Threads |-> Idle]

Init == nw \in BOOLEAN /\ InitRest
InitRaw == nw = FALSE /\ InitRest

\* ------------------------------------------------------------ operations

\* stream_protocol p(f, p) in slot a
ConstructRaw(a, f, p) ==
  /\ ~nw
  /\ a \notin DOMAIN objs
  /\ objs' = objs @@ (a :> stream_protocol_raw(f, p))
  /\ origin' = origin @@ (a :> <<f, p>>)
  /\ lastop' = Op("construct", a, 0, 0, f, p)
  /\ err' = "none"
  /\ ret' = 0 /\ bret' = FALSE
  /\ UNCHANGED <<nw, heap, held, returned, tvars>>

\* stream_protocol p(parameters, max_receive_size) in slot a.  The argument is
\* either a new object the caller made (contents c) and moved in, or a copy
\* of a reference the caller keeps; a handle shared this way no longer counts
\* as one that only the caller holds.  Handles passed in are never null.
ConstructNw(a, h, c, s) ==
  /\ nw
  /\ a \notin DOMAIN objs
  /\ \/ heap[h] = Free /\ heap' = [heap EXCEPT ![h] = c]
     \/ h \in held /\ c = heap[h] /\ heap' = heap
  /\ objs' = objs @@ (a :> stream_protocol_nw(h, s))
  /\ returned' = returned \ {h}
  /\ lastop' = Op("construct", a, 0, 0, h, s)
  /\ err' = "none"
  /\ ret' = 0 /\ bret' = FALSE
  /\ UNCHANGED <<nw, origin, held, tvars>>

\* a concrete protocol object: what its type(), family(), protocol() report,
\* or, with the Network framework, the contents of the parameters its
\* apple_nw_create_parameters() makes and its apple_nw_max_receive_size()
SourceRaw(t, f, p) == [type |-> t, family |-> f, protocol |-> p]
SourceNw(t, c, s) == [type |-> t, params |-> c, max_receive_size |-> s]

\* the raw member initialisers reading the source's accessors crosswise
convert_init_raw_swapped(source_protocol) ==
  [family_ |-> source_protocol.protocol, protocol_ |-> source_protocol.family]

\* member initialisers of the converting constructor
convert_init_raw(source_protocol) ==
  [family_ |-> source_protocol.family, protocol_ |-> source_protocol.protocol]

convert_init_nw(source_protocol, h) ==
  [parameters_ |-> h, max_receive_size_ |-> source_protocol.max_receive_size]

\* stream_protocol p(source_protocol) in slot a, raw form
ConvertRaw(a, t, f, p) ==
  /\ ~nw
  /\ a \notin DOMAIN objs
  /\ LET src == SourceRaw(t, f, p)
         this == convert_init_raw(src)
     IN IF ConvertThrows(src.type, this)
          THEN /\ err' = "bad_cast"
               /\ UNCHANGED <<objs, origin>>
          ELSE /\ err' = "none"
               /\ objs' = objs @@ (a :> this)
               /\ origin' = origin @@ (a :> <<f, p>>)
  /\ lastop' = Op("convert", a, 0, t, f, p)
  /\ ret' = 0 /\ bret' = FALSE
  /\ UNCHANGED <<nw, heap, held, returned, tvars>>

\* stream_protocol p(source_protocol) in slot a, parameter form.  The source
\* makes the parameters object h; when the body throws, the member that holds
\* it is destroyed and the object is released again.
ConvertNw(a, t, c, s, h) ==
  /\ nw
  /\ a \notin DOMAIN objs
  /\ heap[h] = Free
  /\ LET src == SourceNw(t, c, s)
         this == convert_init_nw(src, h)
         made == [heap EXCEPT ![h] = src.params]
     IN IF ConvertThrows(src.type, this)
          THEN /\ err' = "bad_cast"
               /\ heap' = Release(made, h, objs, held)
               /\ UNCHANGED objs
          ELSE /\ err' = "none"
               /\ heap' = made
               /\ objs' = objs @@ (a :> this)
  /\ lastop' = Op("convert", a, 0, t, c, s)
  /\ ret' = 0 /\ bret' = FALSE
  /\ UNCHANGED <<nw, origin, held, returned, tvars>>

\* stream_protocol q(p): the implicit copy constructor, slot a into slot b
Copy(a, b) ==
  /\ a \in DOMAIN objs
  /\ b \notin DOMAIN objs
  /\ objs' = objs @@ (b :> objs[a])
  /\ origin' = IF nw THEN origin ELSE origin @@ (b :> origin[a])
  /\ lastop' = Op("copy", a, b, 0, 0, 0)
  /\ err' = "none"
  /\ ret' = 0 /\ bret' = FALSE
  /\ UNCHANGED <<nw, heap, held, returned, tvars>>

\* the implicit destructor
Destroy(a) ==
  /\ a \in DOMAIN objs
  /\ objs' = Without(objs, a)
  /\ origin' = IF nw THEN origin ELSE Without(origin, a)
  /\ heap' = IF nw THEN Release(heap, objs[a].parameters_, objs', held) ELSE heap
  /\ lastop' = Op("destroy", a, 0, 0, 0, 0)
  /\ err' = "none"
  /\ ret' = 0 /\ bret' = FALSE
  /\ UNCHANGED <<nw, held, returned, tvars>>

Type(a) ==
  /\ a \in DOMAIN objs
  /\ ret' = type(objs[a])
  /\ lastop' = Op("type", a, 0, 0, 0, 0)
  /\ err' = "none"
  /\ bret' = FALSE
  /\ UNCHANGED <<nw, objs, origin, heap, held, returned, tvars>>

Family(a) ==
  /\ ~nw
  /\ a \in DOMAIN objs
  /\ ret' = family(objs[a])
  /\ lastop' = Op("family", a, 0, 0, 0, 0)
  /\ err' = "none"
  /\ bret' = FALSE
  /\ UNCHANGED <<nw, objs, origin, heap, held, returned, tvars>>

Protocol(a) ==
  /\ ~nw
  /\ a \in DOMAIN objs
  /\ ret' = protocol(objs[a])
  /\ lastop' = Op("protocol", a, 0, 0, 0, 0)
  /\ err' = "none"
  /\ bret' = FALSE
  /\ UNCHANGED <<nw, objs, origin, heap, held, returned, tvars>>

MaxReceiveSize(a) ==
  /\ nw
  /\ a \in DOMAIN objs
  /\ ret' = apple_nw_max_receive_size(objs[a])
  /\ lastop' = Op("max_receive_size", a, 0, 0, 0, 0)
  /\ err' = "none"
  /\ bret' = FALSE
  /\ UNCHANGED <<nw, objs, origin, heap, held, returned, tvars>>

\* p.apple_nw_create_parameters(): the caller receives the handle
CreateParameters(a, h) ==
  /\ nw
  /\ a \in DOMAIN objs
  /\ heap[h] = Free
  /\ LET r == apple_nw_create_parameters(objs[a], heap, h)
     IN /\ ret' = r.handle
        /\ heap' = r.heap
        /\ held' = held \cup {r.handle}
        /\ returned' = returned \cup {r.handle}
  /\ lastop' = Op("create_parameters", a, 0, 0, 0, 0)
  /\ err' = "none"
  /\ bret' = FALSE
  /\ UNCHANGED <<nw, objs, origin, tvars>>

OpEq(a, b) ==
  /\ a \in DOMAIN objs
  /\ b \in DOMAIN objs
  /\ bret' = op_eq(objs[a], objs[b])
  /\ lastop' = Op("eq", a, b, 0, 0, 0)
  /\ err' = "none"
  /\ ret' = 0
  /\ UNCHANGED <<nw, objs, origin, heap, held, returned, tvars>>

OpNe(a, b) ==
  /\ a \in DOMAIN objs
  /\ b \in DOMAIN objs
  /\ bret' = op_ne(objs[a], objs[b])
  /\ lastop' = Op("ne", a, b, 0, 0, 0)
  /\ err' = "none"
  /\ ret' = 0
  /\ UNCHANGED <<nw, objs, origin, heap, held, returned, tvars>>

\* the caller changes the object behind a handle it owns
CallerMutate(h, c) ==
  /\ h \in held
  /\ c # heap[h]
  /\ heap' = [heap EXCEPT ![h] = c]
  /\ lastop' = Op("mutate", h, 0, 0, c, 0)
  /\ err' = "none"
  /\ ret' = 0 /\ bret' = FALSE
  /\ UNCHANGED <<nw, objs, origin, held, returned, tvars>>

\* the caller drops its reference to a handle
CallerRelease(h) ==
  /\ h \in held
  /\ held' = held \ {h}
  /\ returned' = returned \ {h}
  /\ heap' = Release(heap, h, objs, held')
  /\ lastop' = Op("release", h, 0, 0, 0, 0)
  /\ err' = "none"
  /\ ret' = 0 /\ bret' = FALSE
  /\ UNCHANGED <<nw, objs, origin, tvars>>

NextRaw ==
  \/ \E a \in Slots, f \in IntVals, p \in IntVals : ConstructRaw(a, f, p)
  \/ \E a \in Slots, t \in TypeVals, f \in IntVals, p \in IntVals : ConvertRaw(a, t, f, p)
  \/ \E a \in Slots, b \in Slots : Copy(a, b)
  \/ \E a \in Slots : Destroy(a)
  \/ \E a \in Slots : Type(a)
  \/ \E a \in Slots : Family(a)
  \/ \E a \in Slots : Protocol(a)
  \/ \E a \in Slots, b \in Slots : OpEq(a, b)
  \/ \E a \in Slots, b \in Slots : OpNe(a, b)

NextNw ==
  \/ \E a \in Slots, h \in Handles, c \in ParamVals, s \in SizeVals : ConstructNw(a, h, c, s)
  \/ \E a \in Slots, t \in TypeVals, c \in ParamVals, s \in SizeVals, h \in Handles :
       ConvertNw(a, t, c, s, h)
  \/ \E a \in Slots : MaxReceiveSize(a)
  \/ \E a \in Slots, h \in Handles : CreateParameters(a, h)
  \/ \E h \in Handles, c \in ParamVals : CallerMutate(h, c)
  \/ \E h \in Handles : CallerRelease(h)

Next == NextRaw \/ NextNw

\* both builds: every operation of the class, called by one thread
Spec == Init /\ [][Next]_vars

\* the build without the Network framework
SpecRaw == InitRaw /\ [][NextRaw]_vars

\* ------------------------------------------- shared objects, several threads
\* Slot Shared holds the descriptor the threads share, slot Other a second
\* one to compare it with; both are constructed before the threads start and
\* outlive them.  type(), family() and protocol() read at most one member and
\* are one step; operator== reads the family members, then the protocol
\* members, and another thread may run in between.
Shared == 1
Other == 2

InitShared ==
  /\ nw = FALSE
  /\ \E f1 \in IntVals, p1 \in IntVals, f2 \in IntVals, p2 \in IntVals :
       /\ objs = (Shared :> stream_protocol_raw(f1, p1)) @@ (Other :> stream_protocol_raw(f2, p2))
       /\ origin = (Shared :> <<f1, p1>>) @@ (Other :> <<f2, p2>>)
  /\ heap = [h \in Handles |-> Free]
  /\ held = {}
  /\ returned = {}
  /\ lastop = Op("init", 0, 0, 0, 0, 0)
  /\ ret = 0
  /\ bret = FALSE
  /\ err = "none"
  /\ pc = [t \in Threads |-> Idle]

Running(t) == pc[t].stage > 0
rest == <<nw, objs, origin, heap, held, returned, lastop, ret, bret, err>>

TType(t) ==
  /\ ~Running(t)
  /\ pc' = [pc EXCEPT ![t] = Call("type", 0, 0, type(objs[Shared]), FALSE)]
  /\ UNCHANGED rest

TFamily(t) ==
  /\ ~Running(t)
  /\ pc' = [pc EXCEPT ![t] = Call("family", 0, 0, family(objs[Shared]), FALSE)]
  /\ UNCHANGED rest

TProtocol(t) ==
  /\ ~Running(t)
  /\ pc' = [pc EXCEPT ![t] = Call("protocol", 0, 0, protocol(objs[Shared]), FALSE)]
  /\ UNCHANGED rest

\* a thread enters operator== or operator!= with p1 the shared descriptor
TCompare(t, o, b) ==
  /\ ~Running(t)
  /\ pc' = [pc EXCEPT ![t] = Call(o, b, 1, 0, FALSE)]
  /\ UNCHANGED rest

\* the value the comparison in progress returns when operator== yields v
Result(c, v) == IF c.op = "ne" THEN ~v ELSE v

\* p1.family_ == p2.family_; && stops here when it is false
TEqFamily(t) ==
  /\ pc[t].stage = 1
  /\ IF eq_family(objs[Shared], objs[pc[t].b])
       THEN pc' = [pc EXCEPT ![t].stage = 2]
       ELSE pc' = [pc EXCEPT ![t].stage = 0, ![t].bval = Result(pc[t], FALSE)]
  /\ UNCHANGED rest

\* p1.protocol_ == p2.protocol_
TEqProtocol(t) ==
  /\ pc[t].stage = 2
  /\ pc' = [pc EXCEPT ![t].stage = 0,
                      ![t].bval = Result(pc[t], eq_protocol(objs[Shared], objs[pc[t].b]))]
  /\ UNCHANGED rest

NextShared ==
  \/ \E t \in Threads : TType(t)
  \/ \E t \in Threads : TFamily(t)
  \/ \E t \in Threads : TProtocol(t)
  \/ \E t \in Threads, o \in {"eq", "ne"}, b \in {Shared, Other} : TCompare(t, o, b)
  \/ \E t \in Threads : TEqFamily(t)
  \/ \E t \in Threads : TEqProtocol(t)

SpecShared == InitShared /\ [][NextShared]_vars

\* ------------------------------------------------------------ properties

Live == DOMAIN objs
ConvertMismatch == lastop.op = "convert" /\ lastop.t # SOCK_STREAM
ConvertMatch == lastop.op = "convert" /\ lastop.t = SOCK_STREAM

\* C1: a converting construction from a source whose type() is not the stream
\* constant throws bad_cast, whatever the source's other values are, and the
\* slot it was constructing in holds no descriptor.
C1_MismatchThrows ==
  ConvertMismatch => err = "bad_cast" /\ lastop.a \notin Live

C1_Witness ==
  ~nw /\ ConvertMismatch /\ err = "bad_cast" /\ lastop.f # lastop.p /\ Live # {}

\* C2: a converting construction from a source whose type() is the stream
\* constant succeeds for every family() and protocol(); the descriptor reports
\* exactly the source's family() and protocol() and equals the descriptor
\* directly constructed from these two values.
C2_ConvertRoundTrip ==
  ConvertMatch =>
    /\ err = "none"
    /\ lastop.a \in Live
    /\ family(objs[lastop.a]) = lastop.f
    /\ protocol(objs[lastop.a]) = lastop.p
    /\ op_eq(objs[lastop.a], stream_protocol_raw(lastop.f, lastop.p))
    /\ ~op_ne(objs[lastop.a], stream_protocol_raw(lastop.f, lastop.p))

C2_Witness ==
  ConvertMatch /\ err = "none" /\ lastop.f # lastop.p /\ lastop.a \in Live

\* C3: direct raw construction from (f, p) succeeds for all f and p, and the
\* descriptor reports family() = f, protocol() = p and type() = SOCK_STREAM.
C3_ConstructVerbatim ==
  lastop.op = "construct" /\ ~nw =>
    /\ err = "none"
    /\ lastop.a \in Live
    /\ family(objs[lastop.a]) = lastop.f
    /\ protocol(objs[lastop.a]) = lastop.p
    /\ type(objs[lastop.a]) = SOCK_STREAM

C3_Witness ==
  lastop.op = "construct" /\ ~nw /\ lastop.f < 0 /\ lastop.p # lastop.f /\ lastop.a \in Live

\* C4: raw-form descriptors a and b built from (f1, p1) and (f2, p2) compare
\* equal iff f1 = f2 and p1 = p2, and a != b is the negation of a == b; the
\* calls of operator== and operator!= return these values.
C4_EqIffSameInputs ==
  /\ \A a \in Live, b \in Live :
       /\ op_eq(objs[a], objs[b]) <=> origin[a] = origin[b]
       /\ op_ne(objs[a], objs[b]) <=> ~op_eq(objs[a], objs[b])
  /\ lastop.op = "eq" => (bret <=> origin[lastop.a] = origin[lastop.b])
  /\ lastop.op = "ne" => (bret <=> origin[lastop.a] # origin[lastop.b])

C4_Witness ==
  /\ lastop.op = "ne" /\ ~bret /\ lastop.a # lastop.b
  /\ \E a \in Live, b \in Live :
       origin[a][1] = origin[b][1] /\ origin[a][2] # origin[b][2]

\* C5: descriptor equality is reflexive, symmetric and transitive, and a call
\* of operator== or operator!= changes no descriptor and no parameters object.
EquivalenceRelation ==
  \A a \in Live, b \in Live, c \in Live :
    /\ op_eq(objs[a], objs[a])
    /\ op_eq(objs[a], objs[b]) => op_eq(objs[b], objs[a])
    /\ op_eq(objs[a], objs[b]) /\ op_eq(objs[b], objs[c]) => op_eq(objs[a], objs[c])

CompareStep == lastop'.op \in {"eq", "ne"} => objs' = objs /\ heap' = heap

\* C5: equality is an equivalence relation in every state, and every step
\* that is a comparison leaves descriptors and parameters objects unchanged.
C5_EqEquivalence == []EquivalenceRelation /\ [][CompareStep]_vars

C5_Witness ==
  /\ lastop.op = "eq" /\ bret /\ lastop.a # lastop.b
  /\ \E a \in Live, b \in Live : ~op_eq(objs[a], objs[b])

\* C6: every descriptor, however it was constructed and in either
\* representation, reports type() = SOCK_STREAM.
C6_TypeIsStream ==
  /\ \A a \in Live : type(objs[a]) = SOCK_STREAM
  /\ lastop.op = "type" => ret = SOCK_STREAM

C6_Witness == nw /\ lastop.op = "type" /\ ret = SOCK_STREAM /\ Cardinality(Live) > 1

\* C7: bad_cast is the only error, and an operation throws it exactly when it
\* is a converting construction from a source whose type() is not stream.
C7_OnlyConvertThrows ==
  /\ err \in {"none", "bad_cast"}
  /\ err = "bad_cast" <=> ConvertMismatch

C7_Witness == nw /\ ConvertMismatch /\ err = "bad_cast" /\ Live # {}

\* C8: apple_nw_create_parameters() returns a handle to a new object that no
\* descriptor stores and the caller did not hold, with the contents of the
\* stored object; changing the object behind a returned handle changes no
\* descriptor and no object a descriptor stores.
ReturnedApart == returned \cap Stored(objs) = {}

CreateStep ==
  lastop'.op = "create_parameters" =>
    /\ heap[ret'] = Free
    /\ ret' \notin held
    /\ ret' \notin Stored(objs')
    /\ heap'[ret'] = heap[objs[lastop'.a].parameters_]
    /\ \A h \in Handles \ {ret'} : heap'[h] = heap[h]
    /\ objs' = objs

MutateStep ==
  lastop'.op = "mutate" /\ lastop'.a \in returned =>
    /\ objs' = objs
    /\ \A a \in Live : heap'[objs[a].parameters_] = heap[objs[a].parameters_]

\* C8: no returned handle is stored in a descriptor; every call returns a new
\* object, and changing a returned object leaves every stored object as it was.
C8_FreshHandle == []ReturnedApart /\ [][CreateStep /\ MutateStep]_vars

C8_Witness ==
  /\ lastop.op = "mutate" /\ lastop.a \in returned
  /\ Cardinality(returned) > 1
  /\ Cardinality(Live) > 1
  /\ \A a \in Live : heap[objs[a].parameters_] # heap[lastop.a]

\* C9: while threads call type(), family(), protocol(), operator== and
\* operator!= on a shared raw-form descriptor, every call returns the value
\* fixed at construction and the stored family and protocol never change.
Returned(c) == c.stage = 0 /\ c.op # "idle"

ReturnsConstructed(c) ==
  /\ c.op = "type" => c.val = SOCK_STREAM
  /\ c.op = "family" => c.val = origin[Shared][1]
  /\ c.op = "protocol" => c.val = origin[Shared][2]
  /\ c.op = "eq" => (c.bval <=> origin[Shared] = origin[c.b])
  /\ c.op = "ne" => (c.bval <=> origin[Shared] # origin[c.b])

SharedReads ==
  /\ \A t \in Threads : Returned(pc[t]) => ReturnsConstructed(pc[t])
  /\ \A a \in Live : objs[a] = stream_protocol_raw(origin[a][1], origin[a][2])

\* C9: every returned call of every thread has the value fixed at
\* construction, and no step changes a descriptor.
C9_SharedImmutable == []SharedReads /\ [][objs' = objs /\ origin' = origin]_vars

C9_Witness ==
  /\ origin[Shared][1] # origin[Shared][2]
  /\ \E t \in Threads, u \in Threads :
       /\ t # u
       /\ pc[t].op = "eq" /\ pc[t].stage = 2
       /\ pc[u].op = "family" /\ Returned(pc[u])

\* C10: in the parameter form two descriptors are equal iff they store the
\* same handle and the same max_receive_size: a copy equals its original, and
\* descriptors storing different handles are unequal though the objects
\* behind the handles have the same contents.
C10_HandleIdentity ==
  nw =>
    /\ \A a \in Live, b \in Live :
         op_eq(objs[a], objs[b]) <=>
           /\ objs[a].parameters_ = objs[b].parameters_
           /\ objs[a].max_receive_size_ = objs[b].max_receive_size_
    /\ lastop.op = "copy" => op_eq(objs[lastop.a], objs[lastop.b])
    /\ \A a \in Live, b \in Live :
         /\ objs[a].parameters_ # objs[b].parameters_
         /\ heap[objs[a].parameters_] = heap[objs[b].parameters_]
         /\ objs[a].max_receive_size_ = objs[b].max_receive_size_
         => ~op_eq(objs[a], objs[b])

C10_Witness ==
  /\ nw /\ lastop.op = "eq" /\ ~bret
  /\ objs[lastop.a].parameters_ # objs[lastop.b].parameters_
  /\ heap[objs[lastop.a].parameters_] = heap[objs[lastop.b].parameters_]
  /\ objs[lastop.a].max_receive_size_ = objs[lastop.b].max_receive_size_
=============================================================================
